---- MODULE Spec2Model ----
(***************************************************************************)
(* A model of kat_edit.py: the path parser, the literal coercer, the      *)
(* serialization binder, the capture Node, the JSON projection and the    *)
(* path mutator / edit command.                                           *)
(*                                                                         *)
(* Strings on which the code works character by character are sequences   *)
(* of one-character strings.  A value of the object graph is a pair        *)
(* <<tag, payload>> whose payload is a sequence of strings.                *)
(***************************************************************************)
EXTENDS Integers, Sequences, FiniteSets, TLC

VARIABLES
    s, parsed, ppc,                 \* parse_path: the path string, the result, the position
    lit, py_val, net_val, cpc,      \* parse_value_literal and _to_net
    assemblyName, typeName,         \* BindToType: the two names of the stream,
    nativeTypes, decision, bpc,     \*   the names the runtime resolves, the decision
    stream, node, info, npc,        \* Node: the decoded entry, the Node, the encoded entry
    heap, heap0,                    \* the object graph, and as it was decoded
    path_expr, value_literal,       \* set_value: its arguments,
    err, spc,                       \*   the exception raised
    sets, si, epc, out, attempts,   \* cmd_edit: args.set, the loop, the output file
    hashOf, jstack, seen,           \* to_jsonable: identity hash codes, the calls of conv,
    jresult, jpc, expanded          \*   the visited set, the result

parseVars == <<s, parsed, ppc>>
coerceVars == <<lit, py_val, net_val, cpc>>
bindVars == <<assemblyName, typeName, nativeTypes, decision, bpc>>
nodeVars == <<stream, node, info, npc>>
setVars == <<heap, heap0, path_expr, value_literal, err, spc>>
editVars == <<sets, si, epc, out, attempts>>
jsonVars == <<hashOf, jstack, seen, jresult, jpc, expanded>>
vars == <<parseVars, coerceVars, bindVars, nodeVars, setVars, editVars, jsonVars>>

(***************************************************************************)
(* Characters                                                              *)
(***************************************************************************)
UpperSeq == <<"A","B","C","D","E","F","G","H","I","J","K","L","M",
              "N","O","P","Q","R","S","T","U","V","W","X","Y","Z">>
LowerSeq == <<"a","b","c","d","e","f","g","h","i","j","k","l","m",
              "n","o","p","q","r","s","t","u","v","w","x","y","z">>
DigitSeq == <<"0","1","2","3","4","5","6","7","8","9">>

Range(f) == {f[i] : i \in DOMAIN f}

DigitChars == Range(DigitSeq)
UpperChars == Range(UpperSeq)
IdentStartChars == Range(UpperSeq) \cup Range(LowerSeq) \cup {"_"}
WordChars == IdentStartChars \cup DigitChars

IsDigit(c) == c \in DigitChars
IsIdentStart(c) == c \in IdentStartChars
IsWord(c) == c \in WordChars

DigitVal(c) == (CHOOSE i \in DOMAIN DigitSeq : DigitSeq[i] = c) - 1

ToLowerChar(c) ==
    IF c \in UpperChars
    THEN LowerSeq[CHOOSE i \in DOMAIN UpperSeq : UpperSeq[i] = c]
    ELSE c

ToLower(str) == [i \in DOMAIN str |-> ToLowerChar(str[i])]

\* str[from:] of Python, from counted from 0
Drop(str, from) == SubSeq(str, from + 1, Len(str))

RECURSIVE DigitsToNat(_)
DigitsToNat(ds) ==
    IF ds = <<>> THEN 0
    ELSE 10 * DigitsToNat(SubSeq(ds, 1, Len(ds) - 1)) + DigitVal(ds[Len(ds)])

(***************************************************************************)
(* parse_path                                                              *)
(***************************************************************************)
\* the first 0-based position at or after p that holds no \w character
RECURSIVE WordEnd(_, _)
WordEnd(str, p) ==
    IF p < Len(str) /\ IsWord(str[p + 1]) THEN WordEnd(str, p + 1) ELSE p

RECURSIVE DigitEnd(_, _)
DigitEnd(str, p) ==
    IF p < Len(str) /\ IsDigit(str[p + 1]) THEN DigitEnd(str, p + 1) ELSE p

KeyToken(name) == [kind |-> "key", key |-> name, idx |-> 0]
IdxToken(n) == [kind |-> "idx", key |-> <<>>, idx |-> n]
NoMatch == [ok |-> FALSE, tok |-> KeyToken(<<>>), end |-> 0]

\* _path_token.match(s, pos): the alternatives in the order of the pattern
path_token_alt3(str, pos) ==
    IF pos = 0 /\ pos < Len(str) /\ IsIdentStart(str[pos + 1])
    THEN [ok |-> TRUE, tok |-> KeyToken(SubSeq(str, pos + 1, WordEnd(str, pos + 1))),
          end |-> WordEnd(str, pos + 1)]
    ELSE NoMatch

path_token(str, pos) ==
    IF /\ pos + 1 < Len(str)
       /\ str[pos + 1] = "."
       /\ IsIdentStart(str[pos + 2])
    THEN [ok |-> TRUE, tok |-> KeyToken(SubSeq(str, pos + 2, WordEnd(str, pos + 2))),
          end |-> WordEnd(str, pos + 2)]
    ELSE IF /\ pos + 2 < Len(str)
            /\ str[pos + 1] = "["
            /\ IsDigit(str[pos + 2])
            /\ DigitEnd(str, pos + 1) < Len(str)
            /\ str[DigitEnd(str, pos + 1) + 1] = "]"
    THEN [ok |-> TRUE,
          tok |-> IdxToken(DigitsToNat(SubSeq(str, pos + 2, DigitEnd(str, pos + 1)))),
          end |-> DigitEnd(str, pos + 1) + 1]
    ELSE path_token_alt3(str, pos)

RECURSIVE parse_from(_, _, _)
parse_from(str, pos, tokens) ==
    IF pos < Len(str)
    THEN LET m == path_token(str, pos)
         IN  IF ~m.ok
             THEN [ok |-> FALSE, tokens |-> <<>>, near |-> Drop(str, pos)]
             ELSE parse_from(str, m.end, Append(tokens, m.tok))
    ELSE [ok |-> TRUE, tokens |-> tokens, near |-> <<>>]

parse_path(str) == parse_from(str, 0, <<>>)

(***************************************************************************)
(* parse_value_literal and _to_net                                         *)
(***************************************************************************)
\* str.strip(): blanks off both ends
RECURSIVE LStrip(_)
LStrip(str) == IF str # <<>> /\ str[1] = " " THEN LStrip(Tail(str)) ELSE str

RECURSIVE RStrip(_)
RStrip(str) ==
    IF str # <<>> /\ str[Len(str)] = " " THEN RStrip(SubSeq(str, 1, Len(str) - 1)) ELSE str

Strip(str) == LStrip(RStrip(str))

\* the least index of str holding a character of cs, 0 when there is none
FirstIdx(str, cs) ==
    IF \E i \in DOMAIN str : str[i] \in cs
    THEN CHOOSE i \in DOMAIN str : str[i] \in cs /\ \A j \in 1..(i - 1) : str[j] \notin cs
    ELSE 0

Contains(str, cs) == \E i \in DOMAIN str : str[i] \in cs

\* digits, with single underscores allowed between two digits (Python's numeric literals)
IsDigitPart(ds) ==
    /\ ds # <<>>
    /\ IsDigit(ds[1]) /\ IsDigit(ds[Len(ds)])
    /\ \A i \in DOMAIN ds : IsDigit(ds[i]) \/ ds[i] = "_"
    /\ \A i \in 1..(Len(ds) - 1) : ~(ds[i] = "_" /\ ds[i + 1] = "_")

OnlyDigits(ds) == SelectSeq(ds, IsDigit)

RECURSIVE StripLeadingZeros(_)
StripLeadingZeros(ds) ==
    IF Len(ds) > 1 /\ ds[1] = "0" THEN StripLeadingZeros(Tail(ds)) ELSE ds

RECURSIVE TrailingZeros(_)
TrailingZeros(ds) ==
    IF Len(ds) > 1 /\ ds[Len(ds)] = "0"
    THEN 1 + TrailingZeros(SubSeq(ds, 1, Len(ds) - 1)) ELSE 0

RECURSIVE NatToDigits(_)
NatToDigits(n) ==
    IF n < 10 THEN <<DigitSeq[n + 1]>>
    ELSE Append(NatToDigits(n \div 10), DigitSeq[(n % 10) + 1])

IntToChars(n) == IF n < 0 THEN <<"-">> \o NatToDigits(0 - n) ELSE NatToDigits(n)

HasSign(str) == str # <<>> /\ str[1] \in {"+", "-"}
Unsigned(str) == IF HasSign(str) THEN Tail(str) ELSE str
IsNeg(str) == str # <<>> /\ str[1] = "-"

\* Python's int(str): [ok, chars], chars the canonical decimal text of the integer
PyInt(str) ==
    LET t == Strip(str)
        body == Unsigned(t)
        ds == StripLeadingZeros(OnlyDigits(body))
    IN  IF IsDigitPart(body)
        THEN [ok |-> TRUE,
              chars |-> IF IsNeg(t) /\ ds # <<"0">> THEN <<"-">> \o ds ELSE ds]
        ELSE [ok |-> FALSE, chars |-> <<>>]

\* Python's float(str): [ok, chars], chars the canonical text: sign, the significant
\* digits, "e", the power of ten of the last significant digit
PyFloat(str) ==
    LET t == Strip(str)
        body == Unsigned(t)
        sign == IF IsNeg(t) THEN <<"-">> ELSE <<>>
        ePos == FirstIdx(body, {"e", "E"})
        mant == IF ePos = 0 THEN body ELSE SubSeq(body, 1, ePos - 1)
        expo == IF ePos = 0 THEN <<>> ELSE Drop(body, ePos)
        dPos == FirstIdx(mant, {"."})
        ipart == IF dPos = 0 THEN mant ELSE SubSeq(mant, 1, dPos - 1)
        fpart == IF dPos = 0 THEN <<>> ELSE Drop(mant, dPos)
        mantOk == IF dPos = 0 THEN IsDigitPart(ipart)
                  ELSE /\ ipart = <<>> \/ IsDigitPart(ipart)
                       /\ fpart = <<>> \/ IsDigitPart(fpart)
                       /\ ~(ipart = <<>> /\ fpart = <<>>)
        expOk == ePos = 0 \/ IsDigitPart(Unsigned(expo))
        e10 == IF ePos = 0 THEN 0
               ELSE IF IsNeg(expo) THEN 0 - DigitsToNat(OnlyDigits(Unsigned(expo)))
               ELSE DigitsToNat(OnlyDigits(Unsigned(expo)))
        all == StripLeadingZeros(OnlyDigits(ipart) \o OnlyDigits(fpart))
        tz == TrailingZeros(all)
        sig == SubSeq(all, 1, Len(all) - tz)
    IN  IF ToLower(body) \in {<<"i","n","f">>, <<"i","n","f","i","n","i","t","y">>}
        THEN [ok |-> TRUE, chars |-> sign \o <<"inf">>]
        ELSE IF ToLower(body) = <<"n","a","n">>
        THEN [ok |-> TRUE, chars |-> <<"nan">>]
        ELSE IF mantOk /\ expOk
        THEN [ok |-> TRUE,
              chars |-> IF sig = <<"0">> THEN sign \o <<"0">>
                        ELSE sign \o sig \o <<"e">>
                             \o IntToChars(e10 - Len(OnlyDigits(fpart)) + tz)]
        ELSE [ok |-> FALSE, chars |-> <<>>]

IsQuoted(str) ==
    /\ Len(str) >= 2
    /\ \/ str[1] = "\"" /\ str[Len(str)] = "\""
       \/ str[1] = "'" /\ str[Len(str)] = "'"

PyStr(str) == <<"str", str>>
PyNone == <<"NoneType", <<>>>>
PyBool(b) == <<"bool", IF b THEN <<"True">> ELSE <<"False">>>>

\* parse_value_literal without the leading-zero rule
parse_value_literal_noLeadingZero(str) ==
    IF IsQuoted(str) THEN PyStr(SubSeq(str, 2, Len(str) - 1))
    ELSE IF ToLower(str) = <<"t","r","u","e">> THEN PyBool(TRUE)
    ELSE IF ToLower(str) = <<"f","a","l","s","e">> THEN PyBool(FALSE)
    ELSE IF ToLower(str) = <<"n","u","l","l">> THEN PyNone
    ELSE IF Contains(str, {"."}) \/ Contains(ToLower(str), {"e"})
    THEN IF PyFloat(str).ok THEN <<"float", PyFloat(str).chars>> ELSE PyStr(str)
    ELSE IF PyInt(str).ok THEN <<"int", PyInt(str).chars>> ELSE PyStr(str)

parse_value_literal(str) ==
    IF IsQuoted(str) THEN PyStr(SubSeq(str, 2, Len(str) - 1))
    ELSE IF ToLower(str) = <<"t","r","u","e">> THEN PyBool(TRUE)
    ELSE IF ToLower(str) = <<"f","a","l","s","e">> THEN PyBool(FALSE)
    ELSE IF ToLower(str) = <<"n","u","l","l">> THEN PyNone
    ELSE IF Len(str) > 1 /\ str[1] = "0" /\ IsDigit(str[2]) THEN PyStr(str)
    ELSE IF Contains(str, {"."}) \/ Contains(ToLower(str), {"e"})
    THEN IF PyFloat(str).ok THEN <<"float", PyFloat(str).chars>> ELSE PyStr(str)
    ELSE IF PyInt(str).ok THEN <<"int", PyInt(str).chars>> ELSE PyStr(str)

\* a <= b for two canonical digit sequences
RECURSIVE LexLE(_, _)
LexLE(a, b) ==
    IF a = <<>> THEN TRUE
    ELSE IF DigitVal(a[1]) # DigitVal(b[1]) THEN DigitVal(a[1]) < DigitVal(b[1])
    ELSE LexLE(Tail(a), Tail(b))

DigitsLE(a, b) == Len(a) < Len(b) \/ (Len(a) = Len(b) /\ LexLE(a, b))

Int32Max == <<"2","1","4","7","4","8","3","6","4","7">>
Int32MinAbs == <<"2","1","4","7","4","8","3","6","4","8">>
Int64Max == <<"9","2","2","3","3","7","2","0","3","6","8","5","4","7","7","5","8","0","7">>
Int64MinAbs == <<"9","2","2","3","3","7","2","0","3","6","8","5","4","7","7","5","8","0","8">>

\* lo <= val <= hi for the canonical text of an integer
InIntRange(chars, minAbs, max) ==
    IF IsNeg(chars) THEN DigitsLE(Tail(chars), minAbs) ELSE DigitsLE(chars, max)

NetNull == <<"null", <<>>>>

to_net(val) ==
    IF val[1] = "NoneType" THEN NetNull
    ELSE IF val[1] = "bool" THEN <<"Boolean", val[2]>>
    ELSE IF val[1] = "int"
    THEN IF InIntRange(val[2], Int32MinAbs, Int32Max) THEN <<"Int32", val[2]>>
         ELSE IF InIntRange(val[2], Int64MinAbs, Int64Max) THEN <<"Int64", val[2]>>
         ELSE <<"Decimal", val[2]>>
    ELSE IF val[1] = "float" THEN <<"Double", val[2]>>
    ELSE IF val[1] = "str" THEN <<"String", val[2]>>
    ELSE val

(***************************************************************************)
(* KatRoundtrip.RedirectBinder                                             *)
(***************************************************************************)
ReservedPrefix == <<"E","v","e","r","b","y","t","e",".","T","e","x","t","G","a","m","e",
                    ".","S","a","v","i","n","g">>
VendorName == <<"E","v","e","r","b","y","t","e">>

IsNullOrEmpty(str) == str = <<>>

StartsWith(str, pre) == Len(str) >= Len(pre) /\ SubSeq(str, 1, Len(pre)) = pre

\* str.IndexOf(sub, StringComparison.OrdinalIgnoreCase) >= 0
ContainsIgnoreCase(str, sub) ==
    \E i \in 1..(Len(str) - Len(sub) + 1) :
        ToLower(SubSeq(str, i, i + Len(sub) - 1)) = ToLower(sub)

\* the name handed to Type.GetType
QualifiedName(asmName, tyName) ==
    IF IsNullOrEmpty(asmName) THEN tyName ELSE tyName \o <<",", " ">> \o asmName

BindNode == <<"KatRoundtrip.Node">>
BindObject == <<"System.Object">>
BindNative(full) == <<"native">> \o full

\* BindToType trying the native resolution before the reserved prefix
BindToType_nativeFirst(asmName, tyName, native) ==
    IF QualifiedName(asmName, tyName) \in native
    THEN BindNative(QualifiedName(asmName, tyName))
    ELSE IF ~IsNullOrEmpty(tyName) /\ StartsWith(tyName, ReservedPrefix) THEN BindNode
    ELSE IF ~IsNullOrEmpty(asmName) /\ StartsWith(asmName, ReservedPrefix) THEN BindNode
    ELSE IF ~IsNullOrEmpty(tyName) /\ ContainsIgnoreCase(tyName, VendorName) THEN BindNode
    ELSE BindObject

\* BindToType, with Type.GetType(full, throwOnError:false) answering from the set
\* `native` of the names the runtime resolves
BindToType(asmName, tyName, native) ==
    IF ~IsNullOrEmpty(tyName) /\ StartsWith(tyName, ReservedPrefix) THEN BindNode
    ELSE IF ~IsNullOrEmpty(asmName) /\ StartsWith(asmName, ReservedPrefix) THEN BindNode
    ELSE IF QualifiedName(asmName, tyName) \in native
    THEN BindNative(QualifiedName(asmName, tyName))
    ELSE IF ~IsNullOrEmpty(tyName) /\ ContainsIgnoreCase(tyName, VendorName) THEN BindNode
    ELSE BindObject

(***************************************************************************)
(* KatRoundtrip.Node                                                       *)
(***************************************************************************)
\* Dictionary<string, object>: the keys in insertion order (nothing is ever removed)
EmptyDict == [keys |-> <<>>, vals |-> <<>>]

KeyIndex(d, k) ==
    IF \E i \in DOMAIN d.keys : d.keys[i] = k
    THEN CHOOSE i \in DOMAIN d.keys : d.keys[i] = k
    ELSE 0

\* d[k] = v
DictSet(d, k, v) ==
    IF KeyIndex(d, k) # 0
    THEN [d EXCEPT !.vals[KeyIndex(d, k)] = v]
    ELSE [keys |-> Append(d.keys, k), vals |-> Append(d.vals, v)]

RECURSIVE CaptureEntries(_, _)
CaptureEntries(entries, d) ==
    IF entries = <<>> THEN d
    ELSE CaptureEntries(Tail(entries), DictSet(d, entries[1][1], entries[1][2]))

\* protected Node(SerializationInfo info, StreamingContext context)
NodeCtor(sinfo) ==
    [kind |-> "Node",
     FullTypeName |-> sinfo.FullTypeName,
     AssemblyName |-> sinfo.AssemblyName,
     keys |-> CaptureEntries(sinfo.entries, EmptyDict).keys,
     vals |-> CaptureEntries(sinfo.entries, EmptyDict).vals]

\* the SerializationInfo the formatter makes for an object of type Node
NodeTypeName == <<"KatRoundtrip.Node">>
NodeAssemblyName == <<"<in-memory assembly>">>
FreshInfo == [FullTypeName |-> NodeTypeName, AssemblyName |-> NodeAssemblyName,
              typeSet |-> FALSE, asmSet |-> FALSE, entries |-> <<>>]

\* GetObjectData restoring the assembly name only under a non-empty type name
GetObjectData_typeGuardsBoth(n, sinfo) ==
    [FullTypeName |-> IF ~IsNullOrEmpty(n.FullTypeName) THEN n.FullTypeName
                      ELSE sinfo.FullTypeName,
     typeSet |-> sinfo.typeSet \/ ~IsNullOrEmpty(n.FullTypeName),
     AssemblyName |-> IF ~IsNullOrEmpty(n.FullTypeName) THEN n.AssemblyName
                      ELSE sinfo.AssemblyName,
     asmSet |-> sinfo.asmSet \/ ~IsNullOrEmpty(n.FullTypeName),
     entries |-> sinfo.entries \o [i \in DOMAIN n.keys |-> <<n.keys[i], n.vals[i]>>]]

\* public void GetObjectData(SerializationInfo info, StreamingContext context)
GetObjectData(n, sinfo) ==
    [FullTypeName |-> IF ~IsNullOrEmpty(n.FullTypeName) THEN n.FullTypeName
                      ELSE sinfo.FullTypeName,
     typeSet |-> sinfo.typeSet \/ ~IsNullOrEmpty(n.FullTypeName),
     AssemblyName |-> IF ~IsNullOrEmpty(n.AssemblyName) THEN n.AssemblyName
                      ELSE sinfo.AssemblyName,
     asmSet |-> sinfo.asmSet \/ ~IsNullOrEmpty(n.AssemblyName),
     entries |-> sinfo.entries \o [i \in DOMAIN n.keys |-> <<n.keys[i], n.vals[i]>>]]

(***************************************************************************)
(* The object graph: a heap of objects, each a Node (its Data in keys and  *)
(* vals), a Dictionary<string, object>, a List<object> or an object of a   *)
(* type with no handler; a value is a primitive or a reference             *)
(***************************************************************************)
\* an object's identity is a sequence of strings, the payload of a reference to it
Ref(id) == <<"ref", id>>
IsRef(v) == v[1] = "ref"
IdOf(v) == v[2]

Object(kind, tname, aname, keys, vals) ==
    [kind |-> kind, FullTypeName |-> tname, AssemblyName |-> aname,
     keys |-> keys, vals |-> vals]

KindOf(h, v) == IF IsRef(v) THEN h[IdOf(v)].kind ELSE v[1]

\* get_node_data_if_any(obj) is not None
IsNode(h, v) == KindOf(h, v) = "Node"

\* isinstance(x, IDictionary) or hasattr(x, "ContainsKey"), x a Node's Data included
IsMapping(h, v) == KindOf(h, v) \in {"Node", "Dict"}
IsList(h, v) == KindOf(h, v) = "List"

DataOf(h, v) == [keys |-> h[IdOf(v)].keys, vals |-> h[IdOf(v)].vals]

(***************************************************************************)
(* traverse_for_set and set_value                                          *)
(***************************************************************************)
NoToken == [kind |-> "none", key |-> <<>>, idx |-> 0]

\* dict_get(d, key): None both for an absent key and for a null value
dict_get(d, key) == IF KeyIndex(d, key) # 0 THEN d.vals[KeyIndex(d, key)] ELSE NetNull

\* cur[tk_val], then cur.get_Item(tk_val): [ok, val]
IndexGet(h, cur, i) ==
    IF IsList(h, cur) /\ i < Len(h[IdOf(cur)].vals)
    THEN [ok |-> TRUE, val |-> h[IdOf(cur)].vals[i + 1]]
    ELSE IF cur[1] = "String" /\ i < Len(cur[2])
    THEN [ok |-> TRUE, val |-> <<"String", <<cur[2][i + 1]>>>>]
    ELSE [ok |-> FALSE, val |-> NetNull]

RECURSIVE traverse_from(_, _, _, _, _)
traverse_from(h, cur, parent, last, tokens) ==
    IF tokens = <<>> THEN [parent |-> parent, last |-> last, cur |-> cur]
    ELSE LET tk == Head(tokens)
         IN  IF tk.kind = "key"
             THEN IF IsMapping(h, cur)
                  THEN traverse_from(h, dict_get(DataOf(h, cur), tk.key), cur, tk,
                                     Tail(tokens))
                  ELSE [parent |-> cur, last |-> tk, cur |-> NetNull]
             ELSE IF IndexGet(h, cur, tk.idx).ok
                  THEN traverse_from(h, IndexGet(h, cur, tk.idx).val, cur, tk, Tail(tokens))
                  ELSE [parent |-> cur, last |-> tk, cur |-> NetNull]

\* traverse_for_set never moving parent off the root
traverse_for_set_rootParent(h, root, tokens) ==
    [traverse_from(h, root, NetNull, NoToken, tokens) EXCEPT
        !.parent = IF tokens = <<>> THEN NetNull ELSE root]

traverse_for_set(h, root, tokens) == traverse_from(h, root, NetNull, NoToken, tokens)

NoError == [type |-> "none", msg |-> <<>>]
ExceptionText == "<exception text>"

\* target[key] = net_val on a Dictionary: the slot is replaced, or added when absent
AssignKey(h, target, key, val) ==
    [h EXCEPT ![IdOf(target)] =
        [@ EXCEPT !.keys = DictSet(DataOf(h, target), key, val).keys,
                  !.vals = DictSet(DataOf(h, target), key, val).vals]]

AssignIndex(h, target, i, val) == [h EXCEPT ![IdOf(target)].vals[i + 1] = val]

\* set_value(root, path_expr, value_literal): [heap, err]
set_value(h, root, path, literal) ==
    LET p == parse_path(path)
        r == traverse_for_set(h, root, p.tokens)
        val == to_net(parse_value_literal(literal))
    IN  IF ~p.ok
        THEN [heap |-> h,
              err |-> [type |-> "ValueError", msg |-> <<"Invalid path near: ">> \o p.near]]
        ELSE IF r.parent = NetNull \/ r.last = NoToken
        THEN [heap |-> h,
              err |-> [type |-> "ValueError",
                       msg |-> <<"Could not resolve path: ">> \o path]]
        ELSE IF r.last.kind = "key"
        THEN IF IsMapping(h, r.parent)
             THEN [heap |-> AssignKey(h, r.parent, r.last.key, val), err |-> NoError]
             ELSE [heap |-> h,
                   err |-> [type |-> "TypeError",
                            msg |-> <<"Cannot assign key on ", KindOf(h, r.parent), " at ">>
                                    \o path]]
        ELSE IF IsList(h, r.parent) /\ r.last.idx < Len(h[IdOf(r.parent)].vals)
             THEN [heap |-> AssignIndex(h, r.parent, r.last.idx, val), err |-> NoError]
             ELSE [heap |-> h,
                   err |-> [type |-> "TypeError",
                            msg |-> <<"Cannot assign index ">> \o NatToDigits(r.last.idx)
                                    \o <<": ", ExceptionText>>]]

(***************************************************************************)
(* to_jsonable: conv as a machine with an explicit stack of the calls of   *)
(* conv that are under way                                                 *)
(***************************************************************************)
JNull == [t |-> "null", s |-> <<>>, keys |-> <<>>, vals |-> <<>>]
JScalar(v) == [t |-> v[1], s |-> v[2], keys |-> <<>>, vals |-> <<>>]
JString(str) == [t |-> "String", s |-> str, keys |-> <<>>, vals |-> <<>>]
JObject(d) == [t |-> "object", s |-> <<>>, keys |-> d.keys, vals |-> d.vals]
JArray(items) == [t |-> "array", s |-> <<>>, keys |-> <<>>, vals |-> items]

TypeKey == <<"$original_dotnet_type">>
AssemblyKey == <<"$original_assembly">>
FallbackKey == <<"$type">>

\* x is None or isinstance(x, (str, int, float, bool))
IsPrimitive(v) == ~IsRef(v)

\* a visited check that never finds an object visited
AlreadySeen_never(sn, oid) == FALSE

\* oid in seen
AlreadySeen(sn, oid) == oid \in sn

\* d.update(py):
\* a key of d keeps its place and takes py's value; py's other keys follow in py's order
DictUpdate(d, py) ==
    LET keys == d.keys \o SelectSeq(py.keys, LAMBDA k : KeyIndex(d, k) = 0)
    IN  [keys |-> keys,
         vals |-> [i \in 1..Len(keys) |->
                     IF KeyIndex(py, keys[i]) # 0 THEN py.vals[KeyIndex(py, keys[i])]
                     ELSE d.vals[i]]]

\* the projection of a Node with the identity written over the fields
NodeProjection_identityWins(tname, aname, py) ==
    DictUpdate(py, DictSet(DictSet(EmptyDict, TypeKey, JString(tname)),
                           AssemblyKey, JString(aname)))

\* the dictionary conv returns for a Node whose fields have been projected to py
NodeProjection(tname, aname, py) ==
    DictUpdate(DictSet(DictSet(EmptyDict, TypeKey, JString(tname)),
                       AssemblyKey, JString(aname)), py)

\* the call of conv for object id, about to project its children
Frame(h, id) ==
    [id |-> id, kind |-> h[id].kind, keys |-> h[id].keys, vals |-> h[id].vals,
     acc |-> EmptyDict]

\* what a call of conv returns once all its children are projected
FrameResult(h, f) ==
    IF f.kind = "Node"
    THEN JObject(NodeProjection(h[f.id].FullTypeName, h[f.id].AssemblyName, f.acc))
    ELSE IF f.kind = "Dict" THEN JObject(f.acc)
    ELSE IF f.kind = "List" THEN JArray(f.acc.vals)
    ELSE JObject(DictUpdate(DictSet(EmptyDict, FallbackKey, JString(h[f.id].FullTypeName)),
                            f.acc))

\* the caller takes the projection j of the child it asked for
TakeChild(f, j) ==
    IF f.kind = "List"
    THEN [f EXCEPT !.vals = Tail(@), !.acc = [keys |-> <<>>, vals |-> Append(@.vals, j)]]
    ELSE [f EXCEPT !.keys = Tail(@), !.vals = Tail(@), !.acc = DictSet(@, f.keys[1], j)]

(***************************************************************************)
(* The components at rest: a specification of one component leaves the     *)
(* variables of the others empty                                           *)
(***************************************************************************)
ParseIdle == s = <<>> /\ parsed = <<>> /\ ppc = <<>>
CoerceIdle == lit = <<>> /\ py_val = <<>> /\ net_val = <<>> /\ cpc = <<>>
BindIdle ==
    /\ assemblyName = <<>> /\ typeName = <<>> /\ nativeTypes = <<>>
    /\ decision = <<>> /\ bpc = <<>>
NodeIdle == stream = <<>> /\ node = <<>> /\ info = <<>> /\ npc = <<>>
SetIdle ==
    /\ heap = <<>> /\ heap0 = <<>> /\ path_expr = <<>> /\ value_literal = <<>>
    /\ err = <<>> /\ spc = <<>>
EditIdle == sets = <<>> /\ si = <<>> /\ epc = <<>> /\ out = <<>> /\ attempts = <<>>
JsonIdle ==
    /\ hashOf = <<>> /\ jstack = <<>> /\ seen = <<>> /\ jresult = <<>>
    /\ jpc = <<>> /\ expanded = <<>>

StringsUpTo(cs, n) == UNION {[1..k -> cs] : k \in 0..n}

(***************************************************************************)
(* parse_path on every short string over the characters of the pattern     *)
(***************************************************************************)
MaxPathLen == 4
PathChars == {"a", "_", "2", ".", "[", "]", "-"}
PathExamples ==
    {<<"a",".","b","[","2","]",".","c">>,
     <<"[","0","]">>,
     <<".","a">>,
     <<"a",".",".","b">>,
     <<"p","a","t","h","s","[","9","9","]",".","x">>}
PathInputs == StringsUpTo(PathChars, MaxPathLen) \cup PathExamples

InitParse ==
    /\ s \in PathInputs /\ parsed = <<>> /\ ppc = "call"
    /\ CoerceIdle /\ BindIdle /\ NodeIdle /\ SetIdle /\ EditIdle /\ JsonIdle

ParseReturn ==
    /\ ppc = "call" /\ parse_path(s).ok
    /\ parsed' = parse_path(s) /\ ppc' = "return"
    /\ UNCHANGED <<s, coerceVars, bindVars, nodeVars, setVars, editVars, jsonVars>>

ParseRaise ==
    /\ ppc = "call" /\ ~parse_path(s).ok
    /\ parsed' = parse_path(s) /\ ppc' = "raise"
    /\ UNCHANGED <<s, coerceVars, bindVars, nodeVars, setVars, editVars, jsonVars>>

NextParse == ParseReturn \/ ParseRaise
SpecParse == InitParse /\ [][NextParse]_vars

\* the grammar of the path language: root step*
IsIdentifier(w) == w # <<>> /\ IsIdentStart(w[1]) /\ \A i \in DOMAIN w : IsWord(w[i])
IsIndexStep(w) ==
    /\ Len(w) >= 3 /\ w[1] = "[" /\ w[Len(w)] = "]"
    /\ \A i \in 2..(Len(w) - 1) : IsDigit(w[i])
IsStep(w) == (w # <<>> /\ w[1] = "." /\ IsIdentifier(Tail(w))) \/ IsIndexStep(w)

RECURSIVE IsSteps(_)
IsSteps(w) ==
    w = <<>> \/ \E k \in 1..Len(w) : IsStep(SubSeq(w, 1, k)) /\ IsSteps(Drop(w, k))

InGrammar(w) ==
    \E k \in 1..Len(w) : IsIdentifier(SubSeq(w, 1, k)) /\ IsSteps(Drop(w, k))

IsSuffix(w, str) == Len(w) <= Len(str) /\ Drop(str, Len(str) - Len(w)) = w

\* C6: parse_path accepts a string exactly when it matches root step*, and then
\* returns the steps in order ("a.b[2].c" gives Field a, Field b, Index 2, Field c);
\* every other string ("[0]", ".a", "a..b") raises, reporting the unparsed remainder.
C6_ParserMatchesGrammar ==
    /\ ppc = "return" => InGrammar(s)
    /\ ppc = "raise" => ~InGrammar(s) /\ parsed.near # <<>> /\ IsSuffix(parsed.near, s)
    /\ (ppc # "call" /\ s = <<"a",".","b","[","2","]",".","c">>) =>
          /\ ppc = "return"
          /\ parsed.tokens = <<KeyToken(<<"a">>), KeyToken(<<"b">>), IdxToken(2),
                                KeyToken(<<"c">>)>>
    /\ (ppc # "call" /\ s \in {<<"[","0","]">>, <<".","a">>, <<"a",".",".","b">>}) => ppc = "raise"

(***************************************************************************)
(* parse_value_literal and _to_net on every short literal                  *)
(***************************************************************************)
MaxLitLen == 3
LitChars == {"0", "1", "-", ".", "e", "\""}
LitExamples ==
    {<<"t","r","u","e">>,
     <<"T","R","U","E">>,
     <<"F","a","l","s","e">>,
     <<"n","u","l","l">>,
     <<"N","u","l","l">>,
     <<"0","0","4","2">>,
     <<"4","2">>,
     <<"3",".","1","4">>,
     <<"\"","0","0","7","\"">>,
     <<"'","t","r","u","e","'">>,
     <<"\"","n","u","l","l","\"">>,
     <<"2","1","4","7","4","8","3","6","4","7">>,
     <<"2","1","4","7","4","8","3","6","4","8">>,
     <<"-","2","1","4","7","4","8","3","6","4","8">>,
     <<"-","2","1","4","7","4","8","3","6","4","9">>,
     <<"9","2","2","3","3","7","2","0","3","6","8","5","4","7","7","5","8","0","7">>,
     <<"9","2","2","3","3","7","2","0","3","6","8","5","4","7","7","5","8","0","8">>,
     <<"-","9","2","2","3","3","7","2","0","3","6","8","5","4","7","7","5","8","0","8">>,
     <<"-","9","2","2","3","3","7","2","0","3","6","8","5","4","7","7","5","8","0","9">>,
     <<"h","e","l","l","o">>,
     <<"0",".","5">>,
     <<"0","0",".","5">>,
     <<"1","E","2">>,
     <<"1","_","0">>,
     <<"+","5">>,
     <<"-","0","0","7">>,
     <<"\"","a","'">>,
     <<"i","n","f">>,
     <<"n","a","n">>,
     <<" ","4","2">>,
     <<"1","2","e">>,
     <<"0","x","1","0">>}
LitInputs == StringsUpTo(LitChars, MaxLitLen) \cup LitExamples

InitCoerce ==
    /\ lit \in LitInputs /\ py_val = <<>> /\ net_val = <<>> /\ cpc = "parse"
    /\ ParseIdle /\ BindIdle /\ NodeIdle /\ SetIdle /\ EditIdle /\ JsonIdle

ParseValueLiteral ==
    /\ cpc = "parse"
    /\ py_val' = parse_value_literal(lit) /\ cpc' = "convert"
    /\ UNCHANGED <<lit, net_val, parseVars, bindVars, nodeVars, setVars, editVars, jsonVars>>

ToNet ==
    /\ cpc = "convert"
    /\ net_val' = to_net(py_val) /\ cpc' = "done"
    /\ UNCHANGED <<lit, py_val, parseVars, bindVars, nodeVars, setVars, editVars, jsonVars>>

NextCoerce == ParseValueLiteral \/ ToNet
SpecCoerce == InitCoerce /\ [][NextCoerce]_vars

LowerIs(str, word) == ToLower(str) = word
IsKeyword(str) ==
    \/ LowerIs(str, <<"t","r","u","e">>) \/ LowerIs(str, <<"f","a","l","s","e">>)
    \/ LowerIs(str, <<"n","u","l","l">>)
LeadingZero(str) == Len(str) >= 2 /\ str[1] = "0" /\ IsDigit(str[2])
LooksFloat(str) == \E i \in DOMAIN str : str[i] \in {".", "e", "E"}
Fits32(chars) == InIntRange(chars, Int32MinAbs, Int32Max)
Fits64(chars) == InIntRange(chars, Int64MinAbs, Int64Max)

\* the value the rule table gives a literal
RuleValue(str) ==
    CASE IsQuoted(str) -> <<"String", SubSeq(str, 2, Len(str) - 1)>>
      [] ~IsQuoted(str) /\ LowerIs(str, <<"t","r","u","e">>) -> <<"Boolean", <<"True">>>>
      [] ~IsQuoted(str) /\ LowerIs(str, <<"f","a","l","s","e">>) -> <<"Boolean", <<"False">>>>
      [] ~IsQuoted(str) /\ LowerIs(str, <<"n","u","l","l">>) -> <<"null", <<>>>>
      [] ~IsQuoted(str) /\ ~IsKeyword(str) /\ LeadingZero(str) -> <<"String", str>>
      [] ~IsQuoted(str) /\ ~IsKeyword(str) /\ ~LeadingZero(str) /\ LooksFloat(str) ->
            IF PyFloat(str).ok THEN <<"Double", PyFloat(str).chars>> ELSE <<"String", str>>
      [] OTHER ->
            IF ~PyInt(str).ok THEN <<"String", str>>
            ELSE IF Fits32(PyInt(str).chars) THEN <<"Int32", PyInt(str).chars>>
            ELSE IF Fits64(PyInt(str).chars) THEN <<"Int64", PyInt(str).chars>>
            ELSE <<"Decimal", PyInt(str).chars>>

\* C7: the coerced value of every literal is the one the ordered rule table gives:
\* quoted -> the string between the quotes; true/false/null; a leading 0 before a
\* digit -> string; "." or e/E -> double; else the narrowest of signed-32, signed-64,
\* decimal; a token that fails numeric parsing -> the unchanged string.
C7_CoercionTable ==
    cpc = "done" =>
        /\ net_val = RuleValue(lit)
        /\ lit = <<"t","r","u","e">> => net_val = <<"Boolean", <<"True">>>>
        /\ lit = <<"0","0","4","2">> => net_val = <<"String", <<"0","0","4","2">>>>
        /\ lit = <<"4","2">> => net_val = <<"Int32", <<"4","2">>>>
        /\ lit = <<"3",".","1","4">> => net_val = <<"Double", <<"3","1","4","e","-","2">>>>
        /\ lit = <<"\"","0","0","7","\"">> => net_val = <<"String", <<"0","0","7">>>>
        /\ lit = <<"n","u","l","l">> => net_val = <<"null", <<>>>>
        /\ lit = <<"2","1","4","7","4","8","3","6","4","8">> => net_val[1] = "Int64"
        /\ lit = <<"-","9","2","2","3","3","7","2","0","3","6","8","5","4","7","7","5","8","0","9">> => net_val[1] = "Decimal"

C7_Witness ==
    /\ cpc = "done" /\ lit = <<"9","2","2","3","3","7","2","0","3","6","8","5","4","7","7","5","8","0","8">> /\ net_val[1] = "Decimal"

(***************************************************************************)
(* BindToType on names put together from a few fragments                   *)
(***************************************************************************)
MaxFrags == 2
NameFrags == {ReservedPrefix, <<".", "X">>, <<"e","V","e","r","b","y","t","e">>}

RECURSIVE Flatten(_)
Flatten(parts) == IF parts = <<>> THEN <<>> ELSE parts[1] \o Flatten(Tail(parts))

StreamNames == {Flatten(parts) : parts \in StringsUpTo(NameFrags, MaxFrags)}

\* names the runtime may or may not resolve: a plain one, one holding the vendor
\* name, and two under the reserved prefix
NativeCandidates ==
    {<<".", "X">>,
     <<"e","V","e","r","b","y","t","e">>,
     ReservedPrefix \o <<".", "X">>,
     QualifiedName(ReservedPrefix, <<".", "X">>)}

InitBind ==
    /\ assemblyName \in StreamNames /\ typeName \in StreamNames
    /\ nativeTypes \in SUBSET NativeCandidates
    /\ decision = <<>> /\ bpc = "call"
    /\ ParseIdle /\ CoerceIdle /\ NodeIdle /\ SetIdle /\ EditIdle /\ JsonIdle

Bind ==
    /\ bpc = "call"
    /\ decision' = BindToType(assemblyName, typeName, nativeTypes)
    /\ bpc' = "done"
    /\ UNCHANGED <<assemblyName, typeName, nativeTypes,
                   parseVars, coerceVars, nodeVars, setVars, editVars, jsonVars>>

NextBind == Bind
SpecBind == InitBind /\ [][NextBind]_vars

UnderReservedPrefix(str) == \E rest \in {Drop(str, Len(ReservedPrefix))} :
                                Len(str) >= Len(ReservedPrefix) /\ str = ReservedPrefix \o rest
Rule1 == UnderReservedPrefix(typeName) \/ UnderReservedPrefix(assemblyName)
Rule2 == QualifiedName(assemblyName, typeName) \in nativeTypes
Rule3 == ContainsIgnoreCase(typeName, VendorName)

\* C8: the binder always returns a decision, by the rules in order: Node under the
\* reserved prefix (type or origin name) whether or not the name also resolves
\* natively; else the native type when it resolves, even when the type name holds the
\* vendor name; else Node when the type name holds the vendor name in any case; else
\* the fallback object type.
C8_BinderPolicy ==
    bpc = "done" =>
        /\ decision # <<>>
        /\ Rule1 => decision = BindNode
        /\ ~Rule1 /\ Rule2 => decision = BindNative(QualifiedName(assemblyName, typeName))
        /\ ~Rule1 /\ ~Rule2 /\ Rule3 => decision = BindNode
        /\ ~Rule1 /\ ~Rule2 /\ ~Rule3 => decision = BindObject

C8_Witness ==
    /\ bpc = "done" /\ UnderReservedPrefix(typeName)
    /\ QualifiedName(assemblyName, typeName) \in nativeTypes
    /\ decision = BindNode

(***************************************************************************)
(* Node: the decode hook, then the encode hook, with no assignment between *)
(***************************************************************************)
MaxFields == 3
FieldNames == {<<"coins">>, <<"name">>, <<"paths">>, <<"userSettings">>}
FieldValues == {<<"Int32", <<"5">>>>, <<"String", <<"h", "i">>>>}
TypeIdentities == {<<>>, <<"Everbyte.TextGame.Saving.PersData">>}
OriginIdentities == {<<>>, <<"Assembly-CSharp">>}

UniqueNames(entries) ==
    \A i, j \in DOMAIN entries : entries[i][1] = entries[j][1] => i = j

StreamEntries ==
    {e \in StringsUpTo(FieldNames \X FieldValues, MaxFields) : UniqueNames(e)}

InitNode ==
    /\ stream \in [FullTypeName : TypeIdentities, AssemblyName : OriginIdentities,
                    entries : StreamEntries]
    /\ node = <<>> /\ info = <<>> /\ npc = "decode"
    /\ ParseIdle /\ CoerceIdle /\ BindIdle /\ SetIdle /\ EditIdle /\ JsonIdle

Decode ==
    /\ npc = "decode"
    /\ node' = NodeCtor(stream) /\ npc' = "encode"
    /\ UNCHANGED <<stream, info, parseVars, coerceVars, bindVars, setVars, editVars, jsonVars>>

Encode ==
    /\ npc = "encode"
    /\ info' = GetObjectData(node, FreshInfo) /\ npc' = "done"
    /\ UNCHANGED <<stream, node, parseVars, coerceVars, bindVars, setVars, editVars, jsonVars>>

NextNode == Decode \/ Encode
SpecNode == InitNode /\ [][NextNode]_vars

\* C1: a Node decoded from an identity and uniquely named fields, encoded with no
\* assignment in between, hands the engine each non-empty identity string verbatim,
\* sets no identity string that was empty, and emits the same field names with the
\* same values in the same order.
C1_RoundTrip ==
    npc = "done" =>
        /\ stream.FullTypeName # <<>> =>
              info.typeSet /\ info.FullTypeName = stream.FullTypeName
        /\ stream.AssemblyName # <<>> =>
              info.asmSet /\ info.AssemblyName = stream.AssemblyName
        /\ stream.FullTypeName = <<>> => ~info.typeSet
        /\ stream.AssemblyName = <<>> => ~info.asmSet
        /\ info.entries = stream.entries

C1_Witness ==
    /\ npc = "done" /\ stream.FullTypeName = <<>> /\ stream.AssemblyName # <<>>
    /\ Len(stream.entries) = MaxFields /\ info.entries = stream.entries
    /\ info.asmSet /\ ~info.typeSet

(***************************************************************************)
(* set_value on a decoded save: a root with a list `paths` and a scalar    *)
(* `x`, the list holding Nodes (each with a scalar `x`) or scalars         *)
(***************************************************************************)
MaxListLen == 5
MaxPathSteps == 3

RootId == <<"root">>
ListId == <<"paths">>
ItemId(i) == <<"item">> \o NatToDigits(i)
Root == Ref(RootId)

NamePaths == <<"p","a","t","h","s">>
NameX == <<"x">>
NameZ == <<"z">>
Int32Of(n) == <<"Int32", NatToDigits(n)>>

SaveGraph(rootKind, n, itemKind, xVal) ==
    [id \in {RootId, ListId} \cup (IF itemKind = "Node" THEN {ItemId(i) : i \in 0..(n - 1)}
                                     ELSE {}) |->
        IF id = RootId
        THEN Object(rootKind,
                    IF rootKind = "Node" THEN <<"Everbyte.TextGame.Saving.PersData">> ELSE <<>>,
                    IF rootKind = "Node" THEN <<"Assembly-CSharp">> ELSE <<>>,
                    <<NamePaths, NameX>>, <<Ref(ListId), xVal>>)
        ELSE IF id = ListId
        THEN Object("List", <<>>, <<>>, <<>>,
                    [i \in 1..n |-> IF itemKind = "Node" THEN Ref(ItemId(i - 1))
                                     ELSE Int32Of(i - 1)])
        ELSE Object("Node", <<"Everbyte.TextGame.Saving.Path">>, <<"Assembly-CSharp">>,
                    <<NameX>>, <<Int32Of(DigitsToNat(Tail(id)))>>)]

SaveGraphs ==
    {SaveGraph(rootKind, n, itemKind, xVal) :
        rootKind \in {"Node", "Dict"}, n \in {0, 1, MaxListLen},
        itemKind \in {"Node", "Int32"},
        xVal \in {Int32Of(5), NetNull, <<"String", <<"h", "i">>>>}}

PathTokens ==
    {KeyToken(NamePaths), KeyToken(NameX), KeyToken(NameZ),
     IdxToken(1), IdxToken(99)}

RenderToken(tk, first) ==
    IF tk.kind = "key" THEN (IF first THEN <<>> ELSE <<".">>) \o tk.key
    ELSE <<"[">> \o NatToDigits(tk.idx) \o <<"]">>

RECURSIVE Render(_, _)
Render(tokens, first) ==
    IF tokens = <<>> THEN <<>>
    ELSE RenderToken(tokens[1], first) \o Render(Tail(tokens), FALSE)

PathExprs ==
    {Render(tokens, TRUE) : tokens \in StringsUpTo(PathTokens, MaxPathSteps)}
    \cup {<<"x",".",".","z">>, <<"p","a","t","h","s","[","x","]">>}

SetLiterals == {<<"7">>, <<"\"", "s", "\"">>}

InitSet ==
    /\ heap \in SaveGraphs /\ heap0 = heap
    /\ path_expr \in PathExprs /\ value_literal \in SetLiterals
    /\ err = NoError /\ spc = "call"
    /\ ParseIdle /\ CoerceIdle /\ BindIdle /\ NodeIdle /\ EditIdle /\ JsonIdle

SetValueReturn ==
    /\ spc = "call"
    /\ LET r == set_value(heap, Root, path_expr, value_literal)
       IN  r.err = NoError /\ heap' = r.heap
    /\ spc' = "returned"
    /\ UNCHANGED <<heap0, path_expr, value_literal, err,
                   parseVars, coerceVars, bindVars, nodeVars, editVars, jsonVars>>

SetValueRaise ==
    /\ spc = "call"
    /\ LET r == set_value(heap, Root, path_expr, value_literal)
       IN  r.err # NoError /\ heap' = r.heap /\ err' = r.err
    /\ spc' = "raised"
    /\ UNCHANGED <<heap0, path_expr, value_literal,
                   parseVars, coerceVars, bindVars, nodeVars, editVars, jsonVars>>

NextSet == SetValueReturn \/ SetValueRaise
SpecSet == InitSet /\ [][NextSet]_vars

\* what a path addresses in a graph: a field step needs a mapping holding the name,
\* an index step a sequence that long
StepResolves(h, v, tk) ==
    IF tk.kind = "key"
    THEN IsRef(v) /\ h[IdOf(v)].kind \in {"Node", "Dict"}
         /\ \E i \in DOMAIN h[IdOf(v)].keys : h[IdOf(v)].keys[i] = tk.key
    ELSE IsRef(v) /\ h[IdOf(v)].kind = "List" /\ tk.idx < Len(h[IdOf(v)].vals)

\* the position in the container's vals that a resolving step addresses
StepPos(h, v, tk) ==
    IF tk.kind = "key"
    THEN CHOOSE i \in DOMAIN h[IdOf(v)].keys : h[IdOf(v)].keys[i] = tk.key
    ELSE tk.idx + 1

RECURSIVE Resolves(_, _, _)
Resolves(h, v, tokens) ==
    tokens = <<>> \/ (/\ StepResolves(h, v, tokens[1])
                      /\ Resolves(h, h[IdOf(v)].vals[StepPos(h, v, tokens[1])], Tail(tokens)))

RECURSIVE ValueAt(_, _, _)
ValueAt(h, v, tokens) ==
    IF tokens = <<>> THEN v
    ELSE ValueAt(h, h[IdOf(v)].vals[StepPos(h, v, tokens[1])], Tail(tokens))

Front(tokens) == SubSeq(tokens, 1, Len(tokens) - 1)
Last(tokens) == tokens[Len(tokens)]

\* the steps address an existing slot that holds a scalar
ScalarSlot(h, steps) ==
    steps # <<>> /\ Resolves(h, Root, steps) /\ ~IsRef(ValueAt(h, Root, steps))

SlotOwner(h, steps) == IdOf(ValueAt(h, Root, Front(steps)))
SlotPos(h, steps) == StepPos(h, ValueAt(h, Root, Front(steps)), Last(steps))

\* some step before the last cannot be resolved
NonTerminalFailure(h, steps) ==
    \E k \in 1..(Len(steps) - 1) : ~Resolves(h, Root, SubSeq(steps, 1, k))

SameShape(h, g) ==
    /\ DOMAIN h = DOMAIN g
    /\ \A id \in DOMAIN h :
          /\ h[id].kind = g[id].kind
          /\ h[id].FullTypeName = g[id].FullTypeName
          /\ h[id].AssemblyName = g[id].AssemblyName
          /\ h[id].keys = g[id].keys
          /\ Len(h[id].vals) = Len(g[id].vals)

NamesPath(msg, path) ==
    \E i \in 1..(Len(msg) - Len(path) + 1) : SubSeq(msg, i, i + Len(path) - 1) = path

\* C2: when the path resolves to an existing scalar slot and set_value succeeds, the
\* slot holds the coerced literal and every other slot, every identity, every key set
\* and every length of the graph is as before.
C2_MutationIsolation ==
    spc = "returned" =>
        LET p == parse_path(path_expr)
            owner == SlotOwner(heap0, p.tokens)
            pos == SlotPos(heap0, p.tokens)
        IN  (p.ok /\ ScalarSlot(heap0, p.tokens)) =>
                /\ SameShape(heap, heap0)
                /\ heap[owner].vals[pos] = RuleValue(value_literal)
                /\ \A id \in DOMAIN heap0 : \A i \in DOMAIN heap0[id].vals :
                      (id # owner \/ i # pos) => heap[id].vals[i] = heap0[id].vals[i]

C2_Witness ==
    /\ spc = "returned"
    /\ parse_path(path_expr).ok
    /\ ScalarSlot(heap0, parse_path(path_expr).tokens)
    /\ Len(parse_path(path_expr).tokens) = 3
    /\ SlotOwner(heap0, parse_path(path_expr).tokens) = ItemId(1)
    /\ heap0[RootId].kind = "Node"
    /\ heap[ItemId(1)].vals[1] = <<"String", <<"s">>>>
    /\ heap0[ItemId(1)].vals[1] = Int32Of(1)

\* C3: set_value never adds a key to a mapping and never grows a sequence, whether it
\* succeeds or fails: an absent terminal field name or an out-of-range terminal index
\* fails instead of adding the slot.
C3_NoNewSlots ==
    spc # "call" =>
        LET p == parse_path(path_expr)
        IN  /\ \A id \in DOMAIN heap0 :
                  /\ heap[id].keys = heap0[id].keys
                  /\ Len(heap[id].vals) = Len(heap0[id].vals)
            /\ (p.ok /\ p.tokens # <<>> /\ Resolves(heap0, Root, Front(p.tokens))
                 /\ ~Resolves(heap0, Root, p.tokens)) => spc = "raised"

\* C4: when a step before the last of a syntactically valid path cannot be resolved,
\* set_value fails with the path-resolution error that names the full path string and
\* mutates nothing, as for "paths[99].x" on a `paths` of length 5.
C4_ResolutionFailure ==
    spc # "call" =>
        LET p == parse_path(path_expr)
        IN  (InGrammar(path_expr) /\ p.ok /\ NonTerminalFailure(heap0, p.tokens)) =>
                /\ spc = "raised"
                /\ err.type = "ValueError"
                /\ NamesPath(err.msg, path_expr)
                /\ heap = heap0

\* what the code does keep of C3 and C4: a failure before the last step raises and
\* leaves the graph as it was, and no sequence ever changes its length
Set_FailureLeavesGraph ==
    spc # "call" =>
        LET p == parse_path(path_expr)
        IN  /\ (p.ok /\ NonTerminalFailure(heap0, p.tokens)) => spc = "raised"
            /\ spc = "raised" => heap = heap0
            /\ \A id \in DOMAIN heap0 :
                  heap0[id].kind = "List" => Len(heap[id].vals) = Len(heap0[id].vals)

(***************************************************************************)
(* cmd_edit: deserialize, the --set assignments in order, serialize        *)
(***************************************************************************)
MaxSets == 3
Assignments ==
    {<<"x","=","7">>,
     <<" ","x"," ","="," ","\"","s","\""," ">>,
     <<"z",".","z","=","1">>,
     <<"x">>,
     <<"x",".",".","z","=","1">>,
     <<"x","=","a","=","b">>}
EditGraphs ==
    {SaveGraph("Node", 1, "Node", Int32Of(5)), SaveGraph("Dict", 0, "Int32", NetNull)}

DecodeError == [type |-> "DecodeError", msg |-> <<>>]
EncodeError == [type |-> "EncodeError", msg |-> <<>>]

InitEdit ==
    /\ heap0 \in EditGraphs /\ heap = <<>>
    /\ sets \in StringsUpTo(Assignments, MaxSets)
    /\ si = 0 /\ epc = "deserialize" /\ out = "untouched" /\ attempts = <<>>
    /\ err = NoError
    /\ path_expr = <<>> /\ value_literal = <<>> /\ spc = <<>>
    /\ ParseIdle /\ CoerceIdle /\ BindIdle /\ NodeIdle /\ JsonIdle

EditFrame ==
    UNCHANGED <<heap0, sets, path_expr, value_literal, spc,
                parseVars, coerceVars, bindVars, nodeVars, jsonVars>>

\* obj = deserialize(args.input, BinderType)
Deserialize ==
    /\ epc = "deserialize"
    /\ heap' = heap0 /\ epc' = "loop"
    /\ UNCHANGED <<si, out, attempts, err>> /\ EditFrame

DeserializeFails ==
    /\ epc = "deserialize"
    /\ err' = DecodeError /\ epc' = "exit"
    /\ UNCHANGED <<heap, si, out, attempts>> /\ EditFrame

\* one assignment of the loop: [heap, err]
apply_assignment(h, assignment) ==
    IF ~Contains(assignment, {"="})
    THEN [heap |-> h,
          err |-> [type |-> "ValueError",
                   msg |-> <<"--set must be path=value, got: ">> \o assignment]]
    ELSE set_value(h, Root,
                   Strip(SubSeq(assignment, 1, FirstIdx(assignment, {"="}) - 1)),
                   Strip(Drop(assignment, FirstIdx(assignment, {"="}))))

\* the loop swallowing a failed assignment and going on to the next
ApplyAssignment_continueOnError ==
    /\ epc = "loop" /\ si < Len(sets)
    /\ LET r == apply_assignment(heap, sets[si + 1])
       IN  /\ heap' = r.heap
           /\ attempts' = Append(attempts, [i |-> si, ok |-> r.err = NoError])
    /\ si' = si + 1
    /\ UNCHANGED <<epc, err, out>> /\ EditFrame

ApplyAssignment ==
    /\ epc = "loop" /\ si < Len(sets)
    /\ LET r == apply_assignment(heap, sets[si + 1])
       IN  /\ heap' = r.heap /\ err' = r.err
           /\ attempts' = Append(attempts, [i |-> si, ok |-> r.err = NoError])
           /\ IF r.err = NoError THEN si' = si + 1 /\ epc' = "loop"
              ELSE si' = si /\ epc' = "exit"
    /\ UNCHANGED out /\ EditFrame

\* serialize(args.output, obj): the file is created, then the engine writes
Serialize ==
    /\ epc = "loop" /\ si = Len(sets)
    /\ out' = "written" /\ epc' = "exit"
    /\ UNCHANGED <<heap, si, attempts, err>> /\ EditFrame

SerializeFails ==
    /\ epc = "loop" /\ si = Len(sets)
    /\ out' = "created" /\ err' = EncodeError /\ epc' = "exit"
    /\ UNCHANGED <<heap, si, attempts>> /\ EditFrame

NextEdit ==
    \/ Deserialize \/ DeserializeFails \/ ApplyAssignment \/ Serialize \/ SerializeFails
SpecEdit == InitEdit /\ [][NextEdit]_vars

Decoded == epc # "deserialize" /\ err # DecodeError
AllSucceeded ==
    Len(attempts) = Len(sets) /\ \A k \in DOMAIN attempts : attempts[k].ok

\* C5: the assignments are attempted strictly in the order given, each only after
\* the one before has succeeded; serialize is invoked if and only if decode and every
\* assignment succeeded, so after the first failing assignment no later one is
\* attempted and the output file is never opened.
C5_SequentialAllOrNothing ==
    /\ \A k \in DOMAIN attempts : attempts[k].i = k - 1
    /\ \A k \in DOMAIN attempts : k < Len(attempts) => attempts[k].ok
    /\ Len(attempts) <= Len(sets)
    /\ out # "untouched" => Decoded /\ AllSucceeded
    /\ epc = "exit" => (out # "untouched" <=> Decoded /\ AllSucceeded)

C5_Witness ==
    /\ epc = "exit" /\ Len(sets) = 3 /\ Len(attempts) = 2
    /\ attempts[1].ok /\ ~attempts[2].ok /\ out = "untouched"

(***************************************************************************)
(* to_jsonable on a root Node and a second object that may refer to each   *)
(* other and to themselves                                                 *)
(***************************************************************************)
MaxKids == 2
OtherId == <<"other">>
JsonFieldNames == {NameX, TypeKey, AssemblyKey}
JsonValues == {Int32Of(7), Ref(RootId), Ref(OtherId)}

UniqueKeys(keys) == \A i, j \in DOMAIN keys : keys[i] = keys[j] => i = j

RootObjects ==
    {Object("Node", <<"Everbyte.TextGame.Saving.PersData">>, <<"Assembly-CSharp">>,
            keys, vals) :
        keys \in {k \in StringsUpTo(JsonFieldNames, MaxKids) : UniqueKeys(k)},
        vals \in StringsUpTo(JsonValues, MaxKids)}

OtherObjects ==
    {Object(kind, <<"Everbyte.TextGame.Saving.Path">>, <<"Assembly-CSharp">>,
            IF kind = "List" THEN <<>> ELSE SubSeq(<<NameX, NameZ>>, 1, Len(vals)), vals) :
        kind \in {"Node", "Dict", "List", "Opaque"},
        vals \in {<<>>, <<Ref(RootId)>>, <<Ref(OtherId)>>, <<Int32Of(1), Ref(RootId)>>}}

JsonGraphs ==
    {[id \in {RootId, OtherId} |-> IF id = RootId THEN r ELSE o] :
        r \in {x \in RootObjects : Len(x.keys) = Len(x.vals)},
        o \in OtherObjects}

\* RuntimeHelpers.GetHashCode: distinct objects may share a hash code
HashCodes ==
    {[id \in {RootId, OtherId} |-> IF id = RootId THEN 1 ELSE 2],
     [id \in {RootId, OtherId} |-> 1]}

\* before cmd_dump has decoded its input
InitJson ==
    /\ heap = <<>> /\ heap0 = <<>> /\ hashOf = <<>>
    /\ jstack = <<>> /\ seen = {} /\ jresult = JNull /\ jpc = "dump"
    /\ expanded = <<>>
    /\ path_expr = <<>> /\ value_literal = <<>> /\ err = <<>> /\ spc = <<>>
    /\ ParseIdle /\ CoerceIdle /\ BindIdle /\ NodeIdle /\ EditIdle

\* cmd_dump: deserialize gives the graph, to_jsonable starts with an empty seen
CmdDump ==
    /\ jpc = "dump"
    /\ heap' \in JsonGraphs
    /\ heap0' = heap'
    /\ hashOf' \in HashCodes
    /\ seen' = {} /\ jstack' = <<>> /\ jpc' = "call"
    /\ expanded' = [id \in {RootId, OtherId} |-> 0]
    /\ UNCHANGED <<jresult, path_expr, value_literal, err, spc,
                   parseVars, coerceVars, bindVars, nodeVars, editVars>>

JsonFrame ==
    UNCHANGED <<heap, heap0, hashOf, path_expr, value_literal, err, spc,
                parseVars, coerceVars, bindVars, nodeVars, editVars>>

\* a call of conv is pending: of the root, or of the next child of the innermost call
HasArg == jpc = "call" \/ (jpc = "conv" /\ jstack[Len(jstack)].vals # <<>>)
Arg == IF jpc = "call" THEN Root ELSE jstack[Len(jstack)].vals[1]

\* conv returns j to its caller
Return(callers, j) ==
    IF callers = <<>>
    THEN jstack' = <<>> /\ jresult' = j /\ jpc' = "done"
    ELSE /\ jstack' = [callers EXCEPT ![Len(callers)] = TakeChild(@, j)]
         /\ jpc' = "conv" /\ UNCHANGED jresult

ConvPrimitive ==
    /\ HasArg /\ IsPrimitive(Arg)
    /\ Return(jstack, JScalar(Arg))
    /\ UNCHANGED <<seen, expanded>> /\ JsonFrame

ConvRepeat ==
    /\ HasArg /\ ~IsPrimitive(Arg) /\ AlreadySeen(seen, hashOf[IdOf(Arg)])
    /\ Return(jstack, JNull)
    /\ UNCHANGED <<seen, expanded>> /\ JsonFrame

ConvEnter ==
    /\ HasArg /\ ~IsPrimitive(Arg) /\ ~AlreadySeen(seen, hashOf[IdOf(Arg)])
    /\ seen' = seen \cup {hashOf[IdOf(Arg)]}
    /\ jstack' = Append(jstack, Frame(heap, IdOf(Arg)))
    /\ expanded' = [expanded EXCEPT ![IdOf(Arg)] = @ + 1]
    /\ jpc' = "conv"
    /\ UNCHANGED jresult /\ JsonFrame

ConvReturn ==
    /\ jpc = "conv" /\ jstack[Len(jstack)].vals = <<>>
    /\ Return(SubSeq(jstack, 1, Len(jstack) - 1), FrameResult(heap, jstack[Len(jstack)]))
    /\ UNCHANGED <<seen, expanded>> /\ JsonFrame

NextJson == CmdDump \/ ConvPrimitive \/ ConvRepeat \/ ConvEnter \/ ConvReturn
\* the interpreter runs conv to its end: a step that can be taken is taken
SpecJson == InitJson /\ [][NextJson]_vars /\ WF_vars(NextJson)

\* the value a projected object holds under a key
Member(j, key) == j.vals[CHOOSE i \in DOMAIN j.keys : j.keys[i] = key]
HasMember(j, key) == \E i \in DOMAIN j.keys : j.keys[i] = key

ProjectionSafe ==
    /\ \A id \in DOMAIN heap : expanded[id] <= 1
    /\ Len(jstack) <= Cardinality(DOMAIN heap)
    /\ \A k \in DOMAIN jstack : hashOf[jstack[k].id] \in seen
    /\ jpc = "done" =>
          \A i \in DOMAIN heap[RootId].keys :
              /\ HasMember(jresult, heap[RootId].keys[i])
              /\ heap[RootId].vals[i] = Root =>
                    Member(jresult, heap[RootId].keys[i]) = JNull
              /\ IsPrimitive(heap[RootId].vals[i]) =>
                    Member(jresult, heap[RootId].keys[i]) = JScalar(heap[RootId].vals[i])

\* C9: to_jsonable terminates on every graph, cyclic ones included: an object is
\* marked visited before its children are projected and is projected at most once, a
\* repeat visit gives null without recursing, and a scalar is never replaced by null.
C9_CycleSafeProjection == []ProjectionSafe /\ <>(jpc = "done")

C9_Witness ==
    /\ jpc = "done"
    /\ \E i \in DOMAIN heap[RootId].keys :
          heap[RootId].vals[i] = Ref(OtherId) /\ heap[RootId].keys[i] = NameX
    /\ heap[OtherId].vals = <<Int32Of(1), Ref(RootId)>> /\ heap[OtherId].kind = "Node"
    /\ hashOf[OtherId] # hashOf[RootId]
    /\ Member(Member(jresult, NameX), NameZ) = JNull
    /\ Member(Member(jresult, NameX), NameX) = JScalar(Int32Of(1))

IdentityOf(key) ==
    IF key = TypeKey THEN JString(heap[RootId].FullTypeName)
    ELSE JString(heap[RootId].AssemblyName)

\* C10 as stated: a captured field named like a reserved identity key is overwritten
\* by the identity string in the projected object; the other fields are projected
\* under their own names.
C10_IdentityOverwritesField ==
    jpc = "done" =>
        /\ \A key \in {TypeKey, AssemblyKey} :
              HasMember(jresult, key) /\ Member(jresult, key) = IdentityOf(key)
        /\ \A i \in DOMAIN heap[RootId].keys : HasMember(jresult, heap[RootId].keys[i])

\* C10 as amended: the field's projected value overwrites the identity string under
\* the reserved key; a reserved key no field is named like holds the identity string;
\* every field is projected under its own name.
C10_FieldOverwritesIdentity ==
    jpc = "done" =>
        /\ jresult.t = "object"
        /\ \A key \in {TypeKey, AssemblyKey} :
              /\ HasMember(jresult, key)
              /\ (\A i \in DOMAIN heap[RootId].keys : heap[RootId].keys[i] # key) =>
                    Member(jresult, key) = IdentityOf(key)
        /\ \A i \in DOMAIN heap[RootId].keys :
              /\ HasMember(jresult, heap[RootId].keys[i])
              /\ Member(jresult, heap[RootId].keys[i]) # IdentityOf(heap[RootId].keys[i])
              /\ IsPrimitive(heap[RootId].vals[i]) =>
                    Member(jresult, heap[RootId].keys[i]) = JScalar(heap[RootId].vals[i])
        /\ Len(jresult.keys) = 2 + Cardinality({i \in DOMAIN heap[RootId].keys :
                                       heap[RootId].keys[i] \notin {TypeKey, AssemblyKey}})

C10_Witness ==
    /\ jpc = "done"
    /\ heap[RootId].keys = <<NameX, TypeKey>>
    /\ heap[RootId].vals = <<Ref(OtherId), Int32Of(7)>>
    /\ Member(jresult, TypeKey) = JScalar(Int32Of(7))
    /\ Member(jresult, AssemblyKey) = JString(heap[RootId].AssemblyName)

====
